---- MODULE Spec2Model ----
\* Task-tracking REST backend: Database (the SQLite store), TaskManager
\* (validation and orchestration) and HttpServer::handle_api_request
\* (routing, JSON, fault boundary).
\*
\* A std::string is a sequence of bytes; byte 0 is the NUL character.  A C
\* string is the prefix of the bytes before the first NUL.  An exception is a
\* record [kind |-> "throw", type, what]; a normal return is
\* [kind |-> "return", value]; a process abort caused by undefined behaviour
\* is [kind |-> "crash"].
EXTENDS Integers, Sequences, FiniteSets, TLC

\* ------------------------------------------------------------------ bounds

\* Largest rowid the store hands out in a run (caps the AUTOINCREMENT counter).
MaxId == 2

\* Number of client connections made in a run.
MaxConn == 3

\* ---------------------------------------------------------------- constants

\* title.length() > 100 is rejected by create_task.
MaxTitleLen == 100

\* ------------------------------------------------------------------ strings

NUL == 0

Rep(c, n) == [i \in 1..n |-> c]

\* strlen: the number of bytes before the first NUL of s.
StrLen(s) ==
    LET nuls == {i \in 1..Len(s) : s[i] = NUL}
    IN  IF nuls = {} THEN Len(s)
        ELSE (CHOOSE i \in nuls : \A j \in nuls : i <= j) - 1

\* std::string::c_str() read back as a NUL-terminated C string (also what
\* sqlite3_bind_text(..., -1, ...) stores).
CStr(s) == SubSeq(s, 1, StrLen(s))

\* ------------------------------------------------------------- input domains

TitleA == <<97>>
TitleNulOnly == <<NUL>>
TitleANulB == <<97, NUL, 98>>
TitleMax == Rep(97, MaxTitleLen)
TitleTooLong == Rep(97, MaxTitleLen + 1)

Titles == {<<>>, TitleA, TitleNulOnly, TitleANulB, TitleMax, TitleTooLong}

\* Ids a caller may pass: the non-positive ones and the ids the store may issue.
CallerIds == (-1)..MaxId

\* State of the SQLite connection during one operation: healthy, or every
\* sqlite3_prepare_v2 fails, or every sqlite3_step fails (busy / full / I/O).
Faults == {"none", "prepare", "step"}

\* What the build does on the undefined read in get_task_by_id: the process
\* aborts (std::string assigned from a null pointer), or the null column text
\* reads as an empty string.
UbOutcomes == {"crash", "null_as_empty"}

\* ------------------------------------------------------------- result values

\* A returned value is a record: [id] for an int id, [ok] for a bool, a Task,
\* [items] for a vector of Task, [status, body] for a response.
Return(v) == [kind |-> "return", value |-> v]
ReturnId(id) == Return([id |-> id])
ReturnBool(b) == Return([ok |-> b])
ReturnTasks(ts) == Return([items |-> ts])
Throw(t, w) == [kind |-> "throw", type |-> t, what |-> w]
Crash == [kind |-> "crash"]

Task(id, title, description, completed) ==
    [id |-> id, title |-> title, description |-> description,
     completed |-> completed]

\* ---------------------------------------------------------------- Database
\* A database value is [tasks, seq]: the rows of table tasks (the completed
\* column holds 0 or 1) and the AUTOINCREMENT counter of the table
\* (sqlite_sequence).  Each operation yields [db, out, calls, leaked]: the
\* database after it, its outcome, the Database operations invoked and the
\* number of statements it prepared and did not finalize.

Ids(tasks) == {r.id : r \in tasks}

Step(db, out, call, leaked) ==
    [db |-> db, out |-> out, calls |-> <<call>>, leaked |-> leaked]

\* sqlite3_prepare_v2 failed: nothing was prepared.
PrepareFailed(db, call) == Step(db, Throw("runtime_error", "sqlite3_errmsg"), call, 0)

\* sqlite3_exec failed: execute_sql throws.
ExecFailed(db, call) == Step(db, Throw("runtime_error", "SQL error: sqlite3_exec"), call, 0)

\* An initialize that drops the table and creates it anew.
Database_initialize_recreating(db) ==
    Step([tasks |-> {}, seq |-> 0], ReturnBool(TRUE), "initialize", 0)

\* CREATE TABLE IF NOT EXISTS: no effect on an existing table.
Database_initialize(db) == Step(db, ReturnBool(TRUE), "initialize", 0)

\* The rowid rule of a table declared without AUTOINCREMENT: one more than the
\* largest rowid present.
NextRowidAfterLargestRow(db) ==
    IF db.tasks = {} THEN 1
    ELSE (CHOOSE i \in Ids(db.tasks) : \A j \in Ids(db.tasks) : j <= i) + 1

\* Rowid chosen by INSERT on an AUTOINCREMENT table: one more than the largest
\* rowid ever used.
NextRowid(db) == db.seq + 1

\* The row an INSERT or UPDATE writes from the bound parameters.
BoundRow(id, task) ==
    [id |-> id, title |-> CStr(task.title), description |-> CStr(task.description),
     completed |-> IF task.completed THEN 1 ELSE 0]

\* An add_task whose failing step has already inserted the row.
Database_add_task_failing_after_insert(db, task, fault) ==
    IF fault = "prepare" THEN PrepareFailed(db, "add_task")
    ELSE LET id == NextRowid(db)
             after == [tasks |-> db.tasks \cup {BoundRow(id, task)}, seq |-> id]
         IN  IF fault = "step"
             THEN Step(after, Throw("runtime_error", "Failed to inserd task"), "add_task", 0)
             ELSE Step(after, ReturnId(id), "add_task", 0)

Database_add_task(db, task, fault) ==
    IF fault = "prepare" THEN PrepareFailed(db, "add_task")
    ELSE IF fault = "step"
         THEN Step(db, Throw("runtime_error", "Failed to inserd task"), "add_task", 0)
         ELSE LET id == NextRowid(db)
              IN  Step([tasks |-> db.tasks \cup {BoundRow(id, task)}, seq |-> id],
                       ReturnId(id), "add_task", 0)

\* Rows matched by WHERE id = ?.
Matching(db, id) == {r \in db.tasks : r.id = id}

\* A zero-row statement that is reported as success.
NoRowChangedReportsSuccess(db, call) == Step(db, ReturnBool(TRUE), call, 0)

\* success && sqlite3_changes(db_) == 0: throws before sqlite3_finalize.
NoRowChanged(db, call) == Step(db, Throw("runtime_error", "not an error"), call, 1)

Database_update_task(db, task, fault) ==
    IF fault = "prepare" THEN PrepareFailed(db, "update_task")
    ELSE IF fault = "step" THEN Step(db, ReturnBool(FALSE), "update_task", 0)
    ELSE IF Matching(db, task.id) = {} THEN NoRowChanged(db, "update_task")
    ELSE Step([db EXCEPT !.tasks = (@ \ Matching(db, task.id))
                                       \cup {BoundRow(task.id, task)}],
              ReturnBool(TRUE), "update_task", 0)

Database_delete_task(db, id, fault) ==
    IF fault = "prepare" THEN PrepareFailed(db, "delete_task")
    ELSE IF fault = "step" THEN Step(db, ReturnBool(FALSE), "delete_task", 0)
    ELSE IF Matching(db, id) = {} THEN NoRowChanged(db, "delete_task")
    ELSE Step([db EXCEPT !.tasks = @ \ Matching(db, id)], ReturnBool(TRUE), "delete_task", 0)

\* The branch taken when sqlite3_step does not return SQLITE_ROW: the columns
\* of a statement that is on no row are read (column 0 reads 0, the text
\* columns read a null pointer) and assigned to std::string.
NoRowRead(db, ub) ==
    IF ub = "crash" THEN Step(db, Crash, "get_task_by_id", 1)
    ELSE Step(db, Return(Task(0, <<>>, <<>>, FALSE)), "get_task_by_id", 0)

Database_get_task_by_id(db, id, fault, ub) ==
    IF fault = "prepare" THEN PrepareFailed(db, "get_task_by_id")
    ELSE IF fault = "step" \/ Matching(db, id) = {} THEN NoRowRead(db, ub)
    ELSE Step(db, Throw("runtime_error", "Task not found with id: " \o ToString(id)),
              "get_task_by_id", 0)

\* The rows in rowid order, as SELECT without ORDER BY scans them.
RECURSIVE ScanOrder(_)
ScanOrder(tasks) ==
    IF tasks = {} THEN <<>>
    ELSE LET r == CHOOSE r \in tasks : \A q \in tasks : r.id <= q.id
         IN  <<r>> \o ScanOrder(tasks \ {r})

RowToTask(r) == Task(r.id, r.title, r.description, r.completed # 0)

Database_get_all_tasks(db, fault) ==
    IF fault = "prepare" THEN PrepareFailed(db, "get_all_tasks")
    ELSE IF fault = "step" THEN Step(db, ReturnTasks(<<>>), "get_all_tasks", 0)
    ELSE LET rs == ScanOrder(db.tasks)
         IN  Step(db, ReturnTasks([i \in 1..Len(rs) |-> RowToTask(rs[i])]), "get_all_tasks", 0)

\* -------------------------------------------------------------- TaskManager
\* Each operation yields [db, out, calls]: calls lists the Database
\* operations it invoked, in order.

NoCall(db, out) == [db |-> db, out |-> out, calls |-> <<>>, leaked |-> 0]

\* A stricter rule that also refuses a title of exactly 100 characters.
TooLongFrom100(title) == Len(title) >= MaxTitleLen

\* title.length() > 100
TooLong(title) == Len(title) > MaxTitleLen

TaskManager_create_task(db, title, description, fault) ==
    IF title = <<>> \/ TooLong(title)
    THEN IF title = <<>>
         THEN NoCall(db, Throw("invalid_argument", "Task title cannot be empty"))
         ELSE NoCall(db, Throw("invalid_argument", "Task title too long (max 100 chars)"))
    ELSE Database_add_task(db, Task(0, title, description, FALSE), fault)

\* An update_task that replaces the row: it deletes the task and adds it anew.
TaskManager_update_task_reinserting(db, id, title, description, completed, fault, ub) ==
    IF id <= 0 THEN NoCall(db, Throw("invalid_argument", "Invalid task ID"))
    ELSE IF title = <<>>
         THEN NoCall(db, Throw("invalid_argument", "Task title cannot be empty"))
    ELSE IF Matching(db, id) = {} THEN NoCall(db, ReturnBool(FALSE))
    ELSE LET d == Database_delete_task(db, id, fault)
         IN  IF d.out # ReturnBool(TRUE) THEN d
             ELSE LET a == Database_add_task(d.db, Task(0, title, description, completed),
                                             fault)
                  IN  [a EXCEPT !.out = ReturnBool(TRUE), !.calls = d.calls \o @]

TaskManager_update_task(db, id, title, description, completed, fault, ub) ==
    IF id <= 0 \/ title = <<>>
    THEN IF id <= 0
         THEN NoCall(db, Throw("invalid_argument", "Invalid task ID"))
         ELSE NoCall(db, Throw("invalid_argument", "Task title cannot be empty"))
    ELSE LET g == Database_get_task_by_id(db, id, fault, ub)
         IN  IF g.out.kind # "return" THEN g
             ELSE IF g.out.value.id = 0
                  THEN [g EXCEPT !.out = ReturnBool(FALSE)]
                  ELSE LET updated_task ==
                               [g.out.value EXCEPT !.title = title,
                                                   !.description = description,
                                                   !.completed = completed]
                           u == Database_update_task(g.db, updated_task, fault)
                       IN  [u EXCEPT !.calls = g.calls \o @, !.leaked = g.leaked + @]

\* A delete_task that hands every id to the Database.
TaskManager_delete_task_unvalidated(db, id, fault) == Database_delete_task(db, id, fault)

TaskManager_delete_task(db, id, fault) ==
    IF id <= 0 THEN NoCall(db, Throw("invalid_argument", "Invalid task ID"))
    ELSE Database_delete_task(db, id, fault)

TaskManager_get_task(db, id, fault, ub) ==
    IF id <= 0 THEN NoCall(db, Throw("invalid_argument", "Invalid task ID"))
    ELSE LET g == Database_get_task_by_id(db, id, fault, ub)
         IN  IF g.out.kind # "return" THEN g
             ELSE IF g.out.value.id <= 0
                  THEN [g EXCEPT !.out = Throw("runtime_error", "Task not found")]
                  ELSE g

TaskManager_get_all_tasks(db, fault) == Database_get_all_tasks(db, fault)

\* ------------------------------------------------------------------- JSON
\* A request body, as json::parse sees it: text that is no JSON
\* ([kind |-> "invalid"]), a JSON value that is no object ([kind |-> "array"])
\* or an object whose members maps each key present to its value.

JString(s) == [kind |-> "string", chars |-> s]
JNumber == [kind |-> "number"]

JObject(members) == [kind |-> "object", members |-> members]

Contains(obj, key) == key \in DOMAIN obj.members

\* A response is [status, body]; body is [kind |-> "error", error],
\* [kind |-> "id", id] or [kind |-> "tasks", items].
Response(status, body) == [status |-> status, body |-> body]

ErrorBody(what) == [kind |-> "error", error |-> what]

\* ------------------------------------------------------------- HttpServer
\* handle_api_request yields [db, out, calls, leaked, tm]: out is the response
\* (the function never throws), tm the TaskManager operations it invoked.

Served(r, tmcall, res) ==
    [db |-> r.db, out |-> res, calls |-> r.calls, leaked |-> r.leaked, tm |-> <<tmcall>>]

Unserved(db, res) ==
    [db |-> db, out |-> res, calls |-> <<>>, leaked |-> 0, tm |-> <<>>]

\* A boundary that answers 400 Bad Request instead.
CaughtAsBadRequest(what) == Response(400, ErrorBody(what))

\* catch (const std::exception& e): internal_server_error with e.what().
Caught(what) == Response(500, ErrorBody(what))

GetTasks(db, fault) ==
    LET r == TaskManager_get_all_tasks(db, fault)
    IN  IF r.out.kind = "throw"
        THEN Served(r, "get_all_tasks", Caught(r.out.what))
        ELSE Served(r, "get_all_tasks",
                    Response(200, [kind |-> "tasks", items |-> r.out.value.items]))

\* A test that only refuses the empty object.
TitleMissingIfEmptyObject(body) == DOMAIN body.members = {}

\* !request_json.as_object().contains("title")
TitleMissing(body) == ~Contains(body, "title")

\* json::parse, as_object, at and as_string throw on text that is no JSON, on a
\* value that is no object, on an absent key and on a value that is no string.
PostTasks(db, body, fault) ==
    IF body.kind = "invalid" THEN Unserved(db, Caught("json::parse: syntax error"))
    ELSE IF body.kind # "object" THEN Unserved(db, Caught("json: not an object"))
    ELSE IF TitleMissing(body) THEN Unserved(db, Caught("Field 'title' is required"))
    ELSE IF ~Contains(body, "title") THEN Unserved(db, Caught("json: out of range"))
    ELSE IF body.members["title"].kind # "string" THEN Unserved(db, Caught("json: not a string"))
    ELSE IF Contains(body, "description") /\ body.members["description"].kind # "string"
         THEN Unserved(db, Caught("json: not a string"))
    ELSE LET title == CStr(body.members["title"].chars)
             description == IF Contains(body, "description")
                            THEN CStr(body.members["description"].chars)
                            ELSE <<>>
             r == TaskManager_create_task(db, title, description, fault)
         IN  IF r.out.kind = "throw"
             THEN Served(r, "create_task", Caught(r.out.what))
             ELSE Served(r, "create_task",
                         Response(201, [kind |-> "id", id |-> r.out.value.id]))

NotFound(db) == Unserved(db, Response(404, ErrorBody("Not found")))

\* A route that matches the target and every method but POST.
IsGetTasksAnyMethod(req) == req.method # "POST" /\ req.target = "/tasks"

\* req.method() == http::verb::get && req.target() == "/tasks"
IsGetTasks(req) == req.method = "GET" /\ req.target = "/tasks"

\* req.method() == http::verb::post && req.target() == "/tasks"
IsPostTasks(req) == req.method = "POST" /\ req.target = "/tasks"

handle_api_request(db, req, fault) ==
    IF IsGetTasks(req) THEN GetTasks(db, fault)
    ELSE IF IsPostTasks(req) THEN PostTasks(db, req.body, fault)
    ELSE NotFound(db)

\* ------------------------------------------------------------ input values

CreateArgs ==
    {[title |-> t, description |-> <<>>] : t \in Titles}
        \cup {[title |-> TitleA, description |-> <<100>>]}

UpdateArgs ==
    [id : CallerIds, title : {<<>>, TitleA, TitleTooLong}, description : {<<100>>}, completed : {TRUE}]

\* Tasks handed to the Database directly, with a caller-chosen id.
StoreTasks == {Task(id, TitleA, <<>>, TRUE) : id \in {0, 1}}

StoreUpdates == {Task(id, TitleA, <<>>, TRUE) : id \in 1..MaxId}

EmptyObject == JObject([k \in {} |-> JNumber])

PostBodies ==
    {[kind |-> "invalid"], [kind |-> "array"], EmptyObject}
        \cup {JObject([title |-> JString(t)]) : t \in Titles}
        \cup {JObject([title |-> JNumber]),
              JObject([description |-> JString(<<100>>)]),
              JObject([title |-> JString(TitleA), description |-> JString(<<100>>)]),
              JObject([title |-> JString(TitleA), description |-> JNumber])}

Methods == {"GET", "POST", "DELETE"}
Targets == {"/tasks", "/tasks/", "/tasks/1"}

Request(m, t, b) == [method |-> m, target |-> t, body |-> b]

Requests ==
    {Request("POST", "/tasks", b) : b \in PostBodies}
        \cup {Request(m, t, EmptyObject) : m \in Methods, t \in Targets}

\* The requests under which a failing store is exercised.
FaultedRequests ==
    {Request("GET", "/tasks", EmptyObject),
     Request("POST", "/tasks", JObject([title |-> JString(TitleA)]))}

\* -------------------------------------------------------------- connections
\* A client connection is [state, peer, trace].  state: "Idle" (the client has
\* not connected), "Queued" (connected, waiting in the listen queue of the
\* acceptor), "Accepted", "RequestRead", "Dispatched", "ResponseWritten" (the
\* points of handle_request it has reached), "Closed" (the stream was
\* destroyed), "Aborted" (the accept completed with an error) or "Refused"
\* (the process exited while it was queued).  peer: what the client did,
\* "silent" (nothing sent yet), "sent" (a complete HTTP request), "malformed"
\* (bytes that are no HTTP request), "closed" (closed without a request) or
\* "reset" (a request, then the connection was reset).  trace: the states
\* passed since the accept.

Conns == 1..MaxConn

NoConnection == [state |-> "Idle", peer |-> "silent", trace |-> <<>>]

\* The states between Accepted and Closed.
HandlingStates == {"Accepted", "RequestRead", "Dispatched", "ResponseWritten"}

\* The connection moves to state st.
Reach(cn, c, st) ==
    [cn EXCEPT ![c].state = st, ![c].trace = Append(@, st)]

\* The requests a client sends.
ServerRequests ==
    {Request("GET", "/tasks", EmptyObject),
     Request("POST", "/tasks", JObject([title |-> JString(TitleA)])),
     Request("POST", "/tasks", EmptyObject),
     Request("DELETE", "/tasks/1", EmptyObject)}

\* ------------------------------------------------------------------- state

VARIABLES
    tasks,    \* rows of table tasks in tasks.db
    seq,      \* AUTOINCREMENT counter of the table
    running,  \* the process is alive
    issued,   \* history: the ids returned by add_task so far
    last,     \* the most recent operation: arguments, outcome, calls, leak
    cur,      \* the connection handle_request is working on, 0 when none
    conn,     \* per client connection: its state, its peer, the states passed
    listed    \* history: the task objects the clients were sent in 200 responses

\* The network side of the server.
net == <<cur, conn, listed>>

vars == <<tasks, seq, running, issued, last, cur, conn, listed>>

DB == [tasks |-> tasks, seq |-> seq]

Called(op, args, fault, r, tm) ==
    [op |-> op, args |-> args, fault |-> fault, out |-> r.out,
     calls |-> r.calls, leaked |-> r.leaked, tm |-> tm]

\* The id an operation handed out, as its caller sees it.
IssuedBy(op, out) ==
    IF op \in {"create_task", "Database::add_task"} /\ out.kind = "return"
    THEN {out.value.id}
    ELSE IF op = "handle_api_request" /\ out.value.status = 201
         THEN {out.value.body.id}
         ELSE {}

\* The effect of one operation r = [db, out, calls, leaked] on the running
\* process.
Do(op, args, fault, r, tm) ==
    /\ r.db.seq <= MaxId
    /\ tasks' = r.db.tasks
    /\ seq' = r.db.seq
    /\ running' = (r.out.kind # "crash")
    /\ issued' = issued \cup IssuedBy(op, r.out)
    /\ last' = Called(op, args, fault, r, tm)

NoArgs == [none |-> TRUE]

\* main: Database db("tasks.db"); db.initialize(); on a fresh file.
Init ==
    /\ tasks = {}
    /\ seq = 0
    /\ running = TRUE
    /\ issued = {}
    /\ last = Called("initialize", NoArgs, "none",
                     Database_initialize([tasks |-> {}, seq |-> 0]), <<>>)
    /\ cur = 0
    /\ conn = [c \in Conns |-> NoConnection]
    /\ listed = {}

\* The process is started again on the same tasks.db.
Restart ==
    /\ ~running
    /\ running' = TRUE
    /\ LET r == Database_initialize(DB)
       IN  /\ tasks' = r.db.tasks
           /\ seq' = r.db.seq
           /\ last' = Called("initialize", NoArgs, "none", r, <<>>)
    /\ UNCHANGED <<issued, net>>

\* Database operations called directly.
StoreInitialize ==
    /\ running
    /\ UNCHANGED net
    /\ \E f \in Faults :
           Do("Database::initialize", NoArgs, f,
              IF f = "none" THEN Database_initialize(DB) ELSE ExecFailed(DB, "initialize"),
              <<>>)

StoreAdd ==
    /\ running
    /\ UNCHANGED net
    /\ \E t \in StoreTasks, f \in Faults :
           Do("Database::add_task", [task |-> t], f, Database_add_task(DB, t, f), <<>>)

StoreUpdate ==
    /\ running
    /\ UNCHANGED net
    /\ \E t \in StoreUpdates, f \in Faults :
           Do("Database::update_task", [task |-> t], f, Database_update_task(DB, t, f), <<>>)

StoreDelete ==
    /\ running
    /\ UNCHANGED net
    /\ \E id \in 1..MaxId, f \in Faults :
           Do("Database::delete_task", [id |-> id], f, Database_delete_task(DB, id, f), <<>>)

StoreGet ==
    /\ running
    /\ UNCHANGED net
    /\ \E id \in 1..MaxId, f \in Faults, ub \in UbOutcomes :
           Do("Database::get_task_by_id", [id |-> id], f,
              Database_get_task_by_id(DB, id, f, ub), <<>>)

StoreGetAll ==
    /\ running
    /\ UNCHANGED net
    /\ \E f \in Faults :
           Do("Database::get_all_tasks", NoArgs, f, Database_get_all_tasks(DB, f), <<>>)

\* TaskManager operations called directly.
CreateTask ==
    /\ running
    /\ UNCHANGED net
    /\ \E a \in CreateArgs, f \in Faults :
           Do("create_task", a, f,
              TaskManager_create_task(DB, a.title, a.description, f), <<"create_task">>)

UpdateTask ==
    /\ running
    /\ UNCHANGED net
    /\ \E a \in UpdateArgs, f \in Faults, ub \in UbOutcomes :
           Do("update_task", a, f,
              TaskManager_update_task(DB, a.id, a.title, a.description, a.completed, f, ub),
              <<"update_task">>)

DeleteTask ==
    /\ running
    /\ UNCHANGED net
    /\ \E id \in CallerIds, f \in Faults :
           Do("delete_task", [id |-> id], f, TaskManager_delete_task(DB, id, f),
              <<"delete_task">>)

GetTask ==
    /\ running
    /\ UNCHANGED net
    /\ \E id \in CallerIds, f \in Faults, ub \in UbOutcomes :
           Do("get_task", [id |-> id], f, TaskManager_get_task(DB, id, f, ub), <<"get_task">>)

GetAllTasks ==
    /\ running
    /\ UNCHANGED net
    /\ \E f \in Faults :
           Do("get_all_tasks", NoArgs, f, TaskManager_get_all_tasks(DB, f),
              <<"get_all_tasks">>)

\* One HTTP request handled by HttpServer::handle_api_request.
HandleApiRequest ==
    /\ running
    /\ UNCHANGED net
    /\ \E req \in Requests, f \in Faults :
           /\ f = "none" \/ req \in FaultedRequests
           /\ LET r == handle_api_request(DB, req, f)
              IN  Do("handle_api_request", req, f, [r EXCEPT !.out = Return(r.out)], r.tm)

Next ==
    \/ StoreInitialize
    \/ StoreAdd
    \/ StoreUpdate
    \/ StoreDelete
    \/ StoreGet
    \/ StoreGetAll
    \/ CreateTask
    \/ UpdateTask
    \/ DeleteTask
    \/ GetTask
    \/ GetAllTasks
    \/ HandleApiRequest
    \/ Restart

Spec == Init /\ [][Next]_vars

\* ------------------------------------------------------------------ server
\* main runs io_context.run() on one thread: the completion handler of
\* async_accept runs handle_request to its end, then calls start_accept.

\* An accept can complete.  An async_accept is outstanding from the
\* constructor's start_accept, and again from the start_accept that follows
\* handle_request in the completion handler; while handle_request runs, none is.
AcceptorArmedWhileReading(c) == TRUE

AcceptorArmed(c) == c = 0

\* The connection at the head of the listen queue.
FirstQueued(cn) == CHOOSE c \in Conns :
                /\ cn[c].state = "Queued"
                /\ \A d \in Conns : cn[d].state = "Queued" => c <= d

\* An exception leaves handle_request: the stream is destroyed while the stack
\* unwinds, io_context.run() rethrows, main catches it and returns 1, and the
\* connections still queued are refused.
Unwound(cn, c) ==
    [d \in Conns |->
        IF d = c THEN Reach(cn, c, "Closed")[d]
        ELSE IF cn[d].state = "Queued" THEN [cn[d] EXCEPT !.state = "Refused"]
        ELSE cn[d]]

ExitOnException ==
    /\ running' = FALSE
    /\ conn' = Unwound(conn, cur)
    /\ cur' = 0
    /\ UNCHANGED <<tasks, seq, issued, last, listed>>

\* A client connects; the connection waits in the listen queue.
ClientConnect ==
    /\ running
    /\ \E c \in Conns :
           /\ conn[c].state = "Idle"
           /\ \A d \in 1..(c - 1) : conn[d].state # "Idle"
           /\ conn' = [conn EXCEPT ![c].state = "Queued"]
    /\ UNCHANGED <<tasks, seq, running, issued, last, cur, listed>>

\* A connected client sends a request, sends bytes that are no request, or
\* closes its end.
ClientSend ==
    /\ \E c \in Conns, p \in {"sent", "malformed", "closed"} :
           /\ conn[c].state \in {"Queued", "Accepted"}
           /\ conn[c].peer = "silent"
           /\ conn' = [conn EXCEPT ![c].peer = p]
    /\ UNCHANGED <<tasks, seq, running, issued, last, cur, listed>>

\* A client that sent its request resets the connection.
ClientReset ==
    /\ \E c \in Conns :
           /\ conn[c].state \in {"Queued", "Accepted"}
           /\ conn[c].peer = "sent"
           /\ conn' = [conn EXCEPT ![c].peer = "reset"]
    /\ UNCHANGED <<tasks, seq, running, issued, last, cur, listed>>

\* The completion handler runs with ec set: handle_request is skipped and
\* start_accept is called again.
AcceptError ==
    /\ running
    /\ AcceptorArmed(cur)
    /\ \E c \in Conns :
           /\ conn[c].state = "Queued"
           /\ c = FirstQueued(conn)
           /\ conn' = [conn EXCEPT ![c].state = "Aborted"]
    /\ UNCHANGED <<tasks, seq, running, issued, last, cur, listed>>

\* The completion handler runs without error and enters handle_request.
Accept ==
    /\ running
    /\ AcceptorArmed(cur)
    /\ \E c \in Conns :
           /\ conn[c].state = "Queued"
           /\ c = FirstQueued(conn)
           /\ conn' = Reach(conn, c, "Accepted")
           /\ cur' = c
    /\ UNCHANGED <<tasks, seq, running, issued, last, listed>>

\* http::read blocks until the peer has sent something; it throws on bytes that
\* are no request and on end of stream.
ReadRequest ==
    /\ running
    /\ cur # 0
    /\ conn[cur].state = "Accepted"
    /\ conn[cur].peer # "silent"
    /\ IF conn[cur].peer \in {"sent", "reset"}
       THEN /\ conn' = Reach(conn, cur, "RequestRead")
            /\ UNCHANGED <<tasks, seq, running, issued, last, cur, listed>>
       ELSE ExitOnException

\* The task objects of the body of a 200 response.
ListedBy(res) ==
    IF res.status = 200 /\ res.body.kind = "tasks"
    THEN {res.body.items[i] : i \in DOMAIN res.body.items}
    ELSE {}

\* handle_api_request on the request read (req is what the client had sent).
Dispatch ==
    /\ running
    /\ cur # 0
    /\ conn[cur].state = "RequestRead"
    /\ \E req \in ServerRequests, f \in {"none", "step"} :
           LET r == handle_api_request(DB, req, f)
           IN  /\ Do("handle_api_request", req, f, [r EXCEPT !.out = Return(r.out)], r.tm)
               /\ listed' = listed \cup ListedBy(r.out)
    /\ conn' = Reach(conn, cur, "Dispatched")
    /\ UNCHANGED cur

\* http::write; it throws when the connection was reset and the reset has
\* arrived.
WriteResponse ==
    /\ running
    /\ cur # 0
    /\ conn[cur].state = "Dispatched"
    /\ \/ /\ conn' = Reach(conn, cur, "ResponseWritten")
          /\ UNCHANGED <<tasks, seq, running, issued, last, cur, listed>>
       \/ /\ conn[cur].peer = "reset"
          /\ ExitOnException

\* socket().shutdown(shutdown_send), which throws on a connection that was
\* reset; handle_request returns, the stream is destroyed and start_accept is
\* called.
CloseConnection ==
    /\ running
    /\ cur # 0
    /\ conn[cur].state = "ResponseWritten"
    /\ \/ /\ conn' = Reach(conn, cur, "Closed")
          /\ cur' = 0
          /\ UNCHANGED <<tasks, seq, running, issued, last, listed>>
       \/ /\ conn[cur].peer = "reset"
          /\ ExitOnException

ServerNext ==
    \/ ClientConnect
    \/ ClientSend
    \/ ClientReset
    \/ AcceptError
    \/ Accept
    \/ ReadRequest
    \/ Dispatch
    \/ WriteResponse
    \/ CloseConnection
    \/ Restart

ServerSpec == Init /\ [][ServerNext]_vars

\* ------------------------------------------------------------------ claims

Http == "handle_api_request"

\* The row of table tasks that holds the task t.
RowOf(t) ==
    [id |-> t.id, title |-> t.title, description |-> t.description,
     completed |-> IF t.completed THEN 1 ELSE 0]

\* C1: a getTask(id) that directly follows a createTask(title, description)
\* which returned id, with 1 <= len(title) <= 100, returns the task
\* {id, title, description, completed = false} and does not raise.
C1_CreateThenGet ==
    [][(/\ last.op = "create_task"
        /\ last.out.kind = "return"
        /\ Len(last.args.title) \in 1..MaxTitleLen
        /\ last'.op = "get_task"
        /\ last'.fault = "none"
        /\ last'.args.id = last.out.value.id)
       => last'.out = Return(Task(last.out.value.id, last.args.title,
                                   last.args.description, FALSE))]_vars

\* C2: the persisted ids are positive and pairwise distinct, and every id that
\* createTask or Store.addTask returns is positive and greater than every id
\* returned before, whatever was deleted since and whatever id the caller put
\* on the task.
IdsPositiveAndDistinct ==
    /\ \A r \in tasks : r.id > 0
    /\ Cardinality(Ids(tasks)) = Cardinality(tasks)

C2_IdsFreshAndIncreasing ==
    [][/\ IdsPositiveAndDistinct'
       /\ (/\ last'.op \in {"create_task", "Database::add_task"}
           /\ last'.out.kind = "return")
          => /\ last'.out.value.id > 0
             /\ \A i \in issued : last'.out.value.id > i
             /\ last'.out.value.id \in Ids(tasks')]_vars

\* C2 witness: createTask returned 2 on a table whose only row, the one with
\* the largest id so far, had been deleted.
C2_Witness ==
    /\ last.op = "create_task"
    /\ last.out.kind = "return"
    /\ last.out.value.id = 2
    /\ Ids(tasks) = {2}

\* C3: createTask fails with a ValidationError exactly when the title is empty
\* or longer than 100 characters; an empty title reports the empty-title
\* error; a failed validation calls no Store operation and leaves the rows
\* unchanged.
IsValidationError(out) == out.kind = "throw" /\ out.type = "invalid_argument"

C4_UpdateMissing ==
    [][(/\ last'.op = "update_task"
        /\ last'.fault = "none"
        /\ last'.args.id > 0
        /\ last'.args.title # <<>>
        /\ last'.args.id \notin Ids(tasks))
       => /\ last'.out.kind \in {"return", "throw"}
          /\ last'.out # ReturnBool(TRUE)
          /\ tasks' = tasks]_vars

\* C5: updateTask(id, t, d, c) on a persisted id with a non-empty title returns
\* true and writes {id, t, d, c}, and a getTask(id) that directly follows a
\* successful updateTask returns exactly {id, t, d, c}.
C5_UpdateThenGet ==
    [][/\ (/\ last'.op = "update_task"
           /\ last'.fault = "none"
           /\ last'.args.title # <<>>
           /\ last'.args.id \in Ids(tasks))
          => /\ last'.out = ReturnBool(TRUE)
             /\ RowOf(last'.args) \in tasks'
       /\ (/\ last.op = "update_task"
           /\ last.out = ReturnBool(TRUE)
           /\ last'.op = "get_task"
           /\ last'.fault = "none"
           /\ last'.args.id = last.args.id)
          => last'.out = Return(last.args)]_vars

\* C6: deleteTask(id) on a persisted id removes exactly the row with that id
\* and returns true, and a getTask(id) that directly follows it fails with the
\* not-found error.
C6_DeleteThenGet ==
    [][/\ (/\ last'.op = "delete_task"
           /\ last'.fault = "none"
           /\ last'.args.id \in Ids(tasks))
          => /\ last'.out = ReturnBool(TRUE)
             /\ tasks' = {r \in tasks : r.id # last'.args.id}
       /\ (/\ last.op = "delete_task"
           /\ last.out = ReturnBool(TRUE)
           /\ last'.op = "get_task"
           /\ last'.fault = "none"
           /\ last'.args.id = last.args.id)
          => last'.out = Throw("runtime_error", "Task not found")]_vars

\* A POST /tasks whose body is an object with a string title of 1 to 100
\* characters and, if present, a string description.
IsValidPost(req) ==
    /\ IsPostTasks(req)
    /\ req.body.kind = "object"
    /\ Contains(req.body, "title")
    /\ req.body.members["title"].kind = "string"
    /\ Len(req.body.members["title"].chars) \in 1..MaxTitleLen
    /\ Contains(req.body, "description")
         => req.body.members["description"].kind = "string"

PostedDescription(body) ==
    IF Contains(body, "description") THEN body.members["description"].chars ELSE <<>>

\* The JSON array GET /tasks lists for the rows of a table.
Listing(rows) ==
    LET rs == ScanOrder(rows)
    IN  [kind |-> "tasks", items |-> [i \in 1..Len(rs) |-> RowToTask(rs[i])]]

\* C7: every POST /tasks with a valid string title is answered 201 {id} with
\* the store-assigned id and persists {id, posted title, posted description or
\* "", completed = false}; a GET /tasks is answered 200 with one object per
\* persisted task.
C7_CreateAndList ==
    [][/\ (/\ last'.op = Http
           /\ last'.fault = "none"
           /\ IsValidPost(last'.args))
          => /\ last'.out.value = Response(201, [kind |-> "id", id |-> seq + 1])
             /\ tasks' = tasks \cup
                    {[id |-> seq + 1,
                      title |-> last'.args.body.members["title"].chars,
                      description |-> PostedDescription(last'.args.body),
                      completed |-> 0]}
       /\ (/\ last'.op = Http
           /\ last'.fault = "none"
           /\ IsGetTasks(last'.args))
          => last'.out.value = Response(200, Listing(tasks))]_vars

\* C8: a POST /tasks whose JSON object body has no title is answered 500 with
\* {"error": "Field 'title' is required"}; createTask is not called and no row
\* is persisted.
C8_MissingTitle ==
    [][(/\ last'.op = Http
        /\ IsPostTasks(last'.args)
        /\ last'.args.body.kind = "object"
        /\ ~Contains(last'.args.body, "title"))
       => /\ last'.out.value = Response(500, ErrorBody("Field 'title' is required"))
          /\ last'.tm = <<>>
          /\ last'.calls = <<>>
          /\ tasks' = tasks]_vars

\* C8 witness: a body holding only a description was refused.
C8_Witness ==
    /\ last.op = Http
    /\ IsPostTasks(last.args)
    /\ last.args.body.kind = "object"
    /\ DOMAIN last.args.body.members = {"description"}
    /\ last.out.value.status = 500

\* C9: every request that is neither GET /tasks nor POST /tasks, matched
\* exactly, is answered 404 {"error": "Not found"} without calling TaskManager
\* and without changing the store.
C9_ExactRouting ==
    [][(/\ last'.op = Http
        /\ ~(last'.args.method = "GET" /\ last'.args.target = "/tasks")
        /\ ~(last'.args.method = "POST" /\ last'.args.target = "/tasks"))
       => /\ last'.out.value = Response(404, ErrorBody("Not found"))
          /\ last'.tm = <<>>
          /\ last'.calls = <<>>
          /\ tasks' = tasks
          /\ seq' = seq]_vars

\* C9 witness: DELETE /tasks was answered 404 while rows were persisted.
C9_Witness ==
    /\ last.op = Http
    /\ last.args.method = "DELETE"
    /\ last.args.target = "/tasks"
    /\ last.out.value.status = 404
    /\ tasks # {}

\* The message of the error that handling req raises, or "" when it raises
\* none: the request shape first, then the title rules, then the store.
RaisedBy(req, fault) ==
    IF IsPostTasks(req)
    THEN IF req.body.kind = "invalid" THEN "json::parse: syntax error"
         ELSE IF req.body.kind # "object" THEN "json: not an object"
         ELSE IF ~Contains(req.body, "title") THEN "Field 'title' is required"
         ELSE IF req.body.members["title"].kind # "string" THEN "json: not a string"
         ELSE IF Contains(req.body, "description")
                   /\ req.body.members["description"].kind # "string"
              THEN "json: not a string"
         ELSE IF req.body.members["title"].chars = <<>>
                   \/ req.body.members["title"].chars[1] = NUL
              THEN "Task title cannot be empty"
         ELSE IF \A i \in 1..(MaxTitleLen + 1) :
                      /\ i <= Len(req.body.members["title"].chars)
                      /\ req.body.members["title"].chars[i] # NUL
              THEN "Task title too long (max 100 chars)"
         ELSE IF fault = "prepare" THEN "sqlite3_errmsg"
         ELSE IF fault = "step" THEN "Failed to inserd task"
         ELSE ""
    ELSE IF IsGetTasks(req) /\ fault = "prepare" THEN "sqlite3_errmsg"
    ELSE ""

\* C10: every error raised while a request is handled is answered 500 with
\* {"error": <the error's message>}; handle_api_request always returns a
\* response, 500 is answered only for a raised error and 400 never.
C10_FaultBoundary ==
    (last.op = Http)
    => /\ last.out.kind = "return"
       /\ last.out.value.status \in {200, 201, 404, 500}
       /\ RaisedBy(last.args, last.fault) # ""
            => last.out.value = Response(500, ErrorBody(RaisedBy(last.args, last.fault)))
       /\ RaisedBy(last.args, last.fault) = "" => last.out.value.status # 500

\* C10 witness: a ValidationError of createTask was answered 500.
C10_Witness ==
    /\ last.op = Http
    /\ last.out.value = Response(500, ErrorBody("Task title too long (max 100 chars)"))

\* The connections between Accepted and Closed.
InFlight(cn) == {c \in Conns : cn[c].state \in HandlingStates}

Lifecycle == <<"Accepted", "RequestRead", "Dispatched", "ResponseWritten", "Closed">>

\* C11: every accepted connection passes through Accepted, RequestRead,
\* Dispatched, ResponseWritten, Closed in that order: the states it has passed
\* are a prefix of that sequence, and a closed connection has passed all of
\* them, so that exactly one request was read and exactly one response
\* written on it, also when the read or the write fails.
C11_ConnectionLifecycle ==
    \A c \in Conns :
        /\ Len(conn[c].trace) <= Len(Lifecycle)
        /\ conn[c].trace = SubSeq(Lifecycle, 1, Len(conn[c].trace))
        /\ conn[c].state = "Closed" => conn[c].trace = Lifecycle

\* C12: the accept loop never stops on its own: the process keeps running
\* whatever the outcome of a connection (a failed read, write, shutdown or
\* accept included), and whenever no connection is being handled the server
\* is listening.
C12_AcceptLoopNeverStops ==
    /\ running
    /\ InFlight(conn) = {} => cur = 0

C14_AcceptWhileWaiting ==
    (\E c, d \in Conns :
        /\ conn[c].state = "Accepted"
        /\ conn[c].peer = "silent"
        /\ conn[d].state = "Queued")
    => ENABLED Accept

TaskServiceOps == {"create_task", "update_task", "delete_task", "get_task", "get_all_tasks"}

\* Every persisted task has a positive id and a title of 1 to 100 characters.
TitleInvariant(rows) ==
    \A r \in rows : r.id > 0 /\ Len(r.title) \in 1..MaxTitleLen

\* C15: no TaskService operation, whatever its arguments, breaks the title
\* invariant: if every persisted task has id > 0 and 1 <= len(title) <= 100
\* before createTask, updateTask, deleteTask, getTask or getAllTasks, the
\* same holds after it.
C15_TitleInvariant ==
    [][(last'.op \in TaskServiceOps /\ TitleInvariant(tasks))
       => TitleInvariant(tasks')]_vars

\* C16: updateTask, deleteTask and getTask with id <= 0 fail with the
\* invalid-id ValidationError, also when the title is empty; updateTask with
\* id > 0 and an empty title fails with the empty-title ValidationError; in
\* both cases no Store operation is called and the store is unchanged.
C16_IdValidationFirst ==
    [][/\ (last'.op \in {"update_task", "delete_task", "get_task"} /\ last'.args.id <= 0)
          => /\ last'.out = Throw("invalid_argument", "Invalid task ID")
             /\ last'.calls = <<>>
             /\ tasks' = tasks
             /\ seq' = seq
       /\ (last'.op = "update_task" /\ last'.args.id > 0 /\ last'.args.title = <<>>)
          => /\ last'.out = Throw("invalid_argument", "Task title cannot be empty")
             /\ last'.calls = <<>>
             /\ tasks' = tasks
             /\ seq' = seq]_vars

\* C16 witness: updateTask with a non-positive id and an empty title reported
\* the invalid id while rows were persisted and the store was failing.
C16_Witness ==
    /\ last.op = "update_task"
    /\ last.args.id <= 0
    /\ last.args.title = <<>>
    /\ last.fault = "prepare"
    /\ last.out = Throw("invalid_argument", "Invalid task ID")
    /\ tasks # {}

\* C17: Store.getTaskById(id) on a healthy store returns the persisted row
\* with that id (its title, description and completed) when there is one,
\* raises a StoreError exactly when there is none, and never changes the
\* store.
C17_GetTaskById ==
    [][(last'.op = "Database::get_task_by_id" /\ last'.fault = "none")
       => /\ tasks' = tasks
          /\ seq' = seq
          /\ \A r \in tasks :
                 r.id = last'.args.id => last'.out = Return(RowToTask(r))
          /\ last'.args.id \notin Ids(tasks) => last'.out.kind = "throw"]_vars

\* The id a Store.updateTask or Store.deleteTask call is about.
TargetId(call) ==
    IF call.op = "Database::update_task" THEN call.args.task.id ELSE call.args.id

\* What a successful call leaves of the row with the target id.
RowAfter(call) ==
    IF call.op = "Database::update_task" THEN {RowOf(call.args.task)} ELSE {}

\* Store.updateTask and Store.deleteTask return true exactly when a row with
\* the id existed and was changed or removed, and never touch another row.
ChangesOnlyItsRow ==
    /\ (last'.out = ReturnBool(TRUE))
          <=> (last'.fault = "none" /\ TargetId(last') \in Ids(tasks))
    /\ last'.out = ReturnBool(TRUE)
          => {r \in tasks' : r.id = TargetId(last')} = RowAfter(last')
    /\ {r \in tasks' : r.id # TargetId(last')} = {r \in tasks : r.id # TargetId(last')}
    /\ TargetId(last') \notin Ids(tasks) => tasks' = tasks

C19_InitializeIdempotent ==
    [][(/\ last'.op \in {"initialize", "Database::initialize"}
        /\ last'.fault = "none")
       => /\ last'.out.kind = "return"
          /\ tasks' = tasks
          /\ seq' = seq]_vars

\* C19 witness: initialize was called on a store that holds a task and whose
\* largest id was deleted.
C19_Witness ==
    /\ last.op = "Database::initialize"
    /\ last.fault = "none"
    /\ tasks # {}
    /\ \A r \in tasks : r.id < seq

StoreOps ==
    {"Database::add_task", "Database::update_task", "Database::delete_task",
     "Database::get_task_by_id", "Database::get_all_tasks"}

\* C20: every Store operation has released the statement it prepared when it
\* returns or raises: none is left outstanding.
C20_StatementsReleased ==
    (last.op \in StoreOps) => last.leaked = 0

\* C21: whatever its arguments and its outcome, updateTask leaves the set of
\* persisted ids as it was, changes no task's id and leaves every row whose id
\* differs from its id argument unchanged.
C21_UpdateFrame ==
    [][(last'.op = "update_task")
       => /\ Ids(tasks') = Ids(tasks)
          /\ Cardinality(tasks') = Cardinality(tasks)
          /\ {r \in tasks' : r.id # last'.args.id} = {r \in tasks : r.id # last'.args.id}
          /\ seq' = seq]_vars

\* C21 witness: updateTask was called with a non-empty title on a persisted
\* id while a task with another id was persisted too.
C21_Witness ==
    /\ last.op = "update_task"
    /\ last.fault = "none"
    /\ last.args.title # <<>>
    /\ last.args.id \in Ids(tasks)
    /\ \E r \in tasks : r.id # last.args.id

\* C22: for every id and every store, getTask(id) either raises or returns a
\* task whose id is positive, is the requested id and is the id of a
\* persisted row; it never returns a task whose id is zero or negative.
C22_GetTaskResult ==
    (last.op = "get_task")
    => \/ last.out.kind = "throw"
       \/ /\ last.out.kind = "return"
          /\ last.out.value.id > 0
          /\ last.out.value.id = last.args.id
          /\ last.out.value.id \in Ids(tasks)

\* C23: a request is answered 201 exactly when handling it inserted exactly
\* one new row, and the id of the 201 body is the id of that row; a request
\* answered 200, 404 or 500 leaves the persisted rows as they were; no other
\* status is answered.
C23_StatusReflectsStore ==
    [][(last'.op = Http)
       => /\ last'.out.value.status \in {200, 201, 404, 500}
          /\ (last'.out.value.status = 201)
                <=> (tasks \subseteq tasks' /\ Cardinality(tasks' \ tasks) = 1)
          /\ last'.out.value.status = 201
                => /\ \A r \in tasks' \ tasks : r.id = last'.out.value.body.id
                   /\ last'.out.value.body.id \notin Ids(tasks)
          /\ last'.out.value.status # 201 => tasks' = tasks]_vars

\* C23 witness: a POST /tasks was answered 500 because the insert failed,
\* while rows were persisted.
C23_Witness ==
    /\ last.op = Http
    /\ IsPostTasks(last.args)
    /\ last.fault = "step"
    /\ last.out.value = Response(500, ErrorBody("Failed to inserd task"))
    /\ tasks # {}

\* C24: no sequence of HTTP requests modifies or removes a persisted task, so
\* every task object that a 200 response to GET /tasks has listed is listed,
\* with the same id, title and description and completed = false, in every
\* later 200 response to GET /tasks.
C24_ListingOnlyGrows ==
    [][/\ tasks \subseteq tasks'
       /\ (/\ last'.op = Http
           /\ IsGetTasks(last'.args)
           /\ last'.out.value.status = 200)
          => \A t \in listed' :
                 /\ t \in ListedBy(last'.out.value)
                 /\ t.completed = FALSE]_vars

====
